---- MODULE Spec2Model ----
(***************************************************************************)
(* Model of main.py, the orchestration script of the fleet provisioning    *)
(* demo: check_real_cert() decides between the first-boot path (empty      *)
(* production certificate directory), the already-provisioned path         *)
(* (non-empty directory) and the missing-directory path, calls             *)
(* run_provisioning(), and then drives the job agent restart loop.         *)
(*                                                                         *)
(* File names and paths are sequences of one-character strings, so that    *)
(* str.endswith and "{}/{}".format are computed rather than assumed.       *)
(* ProvisioningHandler and DeviceJobAgent are imported by main.py; their   *)
(* methods are modelled by their documented effect with a nondeterministic *)
(* outcome, and always return to the caller.                               *)
(***************************************************************************)
EXTENDS Naturals, Sequences, FiniteSets

VARIABLES
    pc,             \* position of the main thread in check_real_cert
    boots,          \* number of times the process has been started again
    dirExists,      \* os.path.exists(actua_cert_path) and os.path.isdir(actua_cert_path)
    dir,            \* set of file names in actua_cert_path
    claimPresent,   \* open(secure_cert_path/bootstrap_cert) succeeds
    isFirst,        \* provisioner.isFirst
    new_cert_name,  \* provisioner.new_cert_name
    new_key_name,   \* provisioner.new_key_name
    lsCrt,          \* result of os.listdir at line 105
    lsKey,          \* result of os.listdir at line 107
    files,          \* local variable files
    dirAtStart,     \* contents of actua_cert_path when this run started
    rpCalls,        \* isRotation arguments of the run_provisioning calls of this run
    provLog,        \* isRotation arguments of the get_official_certs calls of this run
    provOutcome,    \* outcome of the run_provisioning call of this run
    probeResult,    \* outcome of provisioner.test_restricted_topic in this run
    sensorStarted,  \* the sensor thread has been started
    jobagent,       \* the DeviceJobAgent object and the arguments it was given
    sessions,       \* number of job agent sessions currently open
    rebooting,      \* the job agent's reboot-pending flag
    lastCall,       \* last method called on jobagent
    lastPoll,       \* value returned by the last isRebooting()
    everDisconnected \* disconnect() has been called in this run

vars == <<pc, boots, dirExists, dir, claimPresent, isFirst, new_cert_name,
          new_key_name, lsCrt, lsKey, files, dirAtStart, rpCalls, provLog,
          provOutcome, probeResult, sensorStarted, jobagent, sessions,
          rebooting, lastCall, lastPoll, everDisconnected>>

\* ------------------------------------------------------------------------
\* Bounds
\* ------------------------------------------------------------------------
MaxBoots == 1
MaxFiles == 3

\* ------------------------------------------------------------------------
\* Configuration (config.ini, section SETTINGS) and file names
\* ------------------------------------------------------------------------
secure_cert_path == <<"s">>
bootstrap_cert == <<"b", ".", "c", "r", "t">>
actua_cert_path == <<"p">>
thing_prefix == <<"t">>
root_cert == <<"r", ".", "p", "e", "m">>
unique_id == <<"u">>
iot_endpoint == <<"e">>

NewCert == <<"n", ".", "c", "r", "t">>
NewKey == <<"n", ".", "k", "e", "y">>
OldCert == <<"o", ".", "c", "r", "t">>
OldKey == <<"o", ".", "k", "e", "y">>
OtherFile == <<"c", "r", "t">>

Names == {NewCert, NewKey, OldCert, OldKey, OtherFile}

NoName == <<"N", "o", "n", "e">>

CrtExt == <<".", "c", "r", "t">>
KeyExt == <<".", "k", "e", "y">>

\* ------------------------------------------------------------------------
\* Pure helpers
\* ------------------------------------------------------------------------
EndsWith(s, suffix) ==
    /\ Len(s) >= Len(suffix)
    /\ SubSeq(s, Len(s) - Len(suffix) + 1, Len(s)) = suffix

Format(a, b) == a \o <<"/">> \o b

Format0(a, b) == a \o b

\* os.listdir: the names of the directory, in arbitrary order
ListDir(S) ==
    {s \in [1..Cardinality(S) -> S] : \A i, j \in 1..Cardinality(S) : i # j => s[i] # s[j]}

\* faulty variant of FilterExt: the extension test is left out
FilterExt_NoTest(listing, ext) == listing

FilterExt(listing, ext) == SelectSeq(listing, LAMBDA filename : EndsWith(filename, ext))

NoAgent == [constructed |-> FALSE, thing |-> <<>>, endpoint |-> <<>>,
            cert |-> <<>>, key |-> <<>>, ca |-> <<>>]

\* faulty variant of DeviceJobAgent: the claim certificate is handed over
DeviceJobAgent_ClaimCert ==
    [constructed |-> TRUE,
     thing |-> Format0(thing_prefix, unique_id),
     endpoint |-> iot_endpoint,
     cert |-> Format(secure_cert_path, bootstrap_cert),
     key |-> Format(actua_cert_path, new_key_name),
     ca |-> Format(secure_cert_path, root_cert)]

\* DeviceJobAgent(thing, endpoint, cert, key, root ca), lines 96 and 113
DeviceJobAgent ==
    [constructed |-> TRUE,
     thing |-> Format0(thing_prefix, unique_id),
     endpoint |-> iot_endpoint,
     cert |-> Format(actua_cert_path, new_cert_name),
     key |-> Format(actua_cert_path, new_key_name),
     ca |-> Format(secure_cert_path, root_cert)]

\* the files the job agent was given are in the production directory
IdentityUsable ==
    /\ jobagent.constructed
    /\ \E c \in dir : jobagent.cert = Format(actua_cert_path, c)
    /\ \E k \in dir : jobagent.key = Format(actua_cert_path, k)

\* ------------------------------------------------------------------------
\* Initial state: module level of main.py, before check_real_cert()
\* ------------------------------------------------------------------------
ProcessStart ==
    /\ pc = "start"
    /\ new_cert_name = NoName
    /\ new_key_name = NoName
    /\ lsCrt = <<>>
    /\ lsKey = <<>>
    /\ files = <<>>
    /\ rpCalls = <<>>
    /\ provLog = <<>>
    /\ provOutcome = "none"
    /\ probeResult = "none"
    /\ sensorStarted = FALSE
    /\ jobagent = NoAgent
    /\ sessions = 0
    /\ rebooting = FALSE
    /\ lastCall = "none"
    /\ lastPoll = FALSE
    /\ everDisconnected = FALSE

Init ==
    /\ ProcessStart
    /\ boots = 0
    /\ dirExists \in BOOLEAN
    /\ dir \in {S \in SUBSET Names : Cardinality(S) <= MaxFiles}
    /\ dirExists = FALSE => dir = {}
    /\ dirAtStart = dir
    /\ claimPresent \in BOOLEAN
    /\ isFirst \in BOOLEAN

\* ------------------------------------------------------------------------
\* ProvisioningHandler (imported): documented effect, nondeterministic outcome
\* ------------------------------------------------------------------------
\* provisioner.get_official_certs(callback, isRotation): on success the new
\* production certificate and key are stored and named in the provisioner
get_official_certs(isRotation, ok) ==
    /\ provLog' = Append(provLog, isRotation)
    /\ provOutcome' = IF ok THEN "ok" ELSE "failed"
    /\ dir' = IF ok THEN dir \cup {NewCert, NewKey} ELSE dir
    /\ new_cert_name' = IF ok THEN NewCert ELSE new_cert_name
    /\ new_key_name' = IF ok THEN NewKey ELSE new_key_name

\* provisioner.test_restricted_topic(message): publishes on the restricted
\* topic with the production identity; the result is not used by the caller
test_restricted_topic(r) ==
    probeResult' = r

\* faulty variant of run_provisioning: the bootstrap certificate is not opened first
run_provisioning_NoOpen(isRotation) ==
    /\ rpCalls' = Append(rpCalls, isRotation)
    /\ \E ok \in BOOLEAN : get_official_certs(isRotation, ok)

\* ------------------------------------------------------------------------
\* run_provisioning(isRotation), lines 70-86
\* ------------------------------------------------------------------------
run_provisioning(isRotation) ==
    /\ rpCalls' = Append(rpCalls, isRotation)
    /\ IF isRotation
       THEN \E ok \in BOOLEAN : get_official_certs(TRUE, ok)
       ELSE IF claimPresent
            THEN \E ok \in BOOLEAN : get_official_certs(FALSE, ok)
            ELSE /\ provOutcome' = "noclaim"
                 /\ UNCHANGED <<provLog, dir, new_cert_name, new_key_name>>

\* ------------------------------------------------------------------------
\* check_real_cert(), lines 88-121
\* ------------------------------------------------------------------------
\* faulty variant of DirIsEmpty: the negation is dropped
DirIsEmpty_NoNegation == dir # {}

\* not os.listdir(actua_cert_path), line 90
DirIsEmpty == dir = {}

\* lines 89-91, 102, 120-121: choice of the path
CheckDir ==
    /\ pc = "start"
    /\ pc' = IF dirExists THEN (IF DirIsEmpty THEN "L92" ELSE "L103") ELSE "done"
    /\ UNCHANGED <<boots, dirExists, dir, claimPresent, isFirst, new_cert_name,
                   new_key_name, lsCrt, lsKey, files, dirAtStart, rpCalls, provLog,
                   provOutcome, probeResult, sensorStarted, jobagent, sessions,
                   rebooting, lastCall, lastPoll, everDisconnected>>

\* faulty variant of FirstBootProvisioning: a failed attempt is tried again
FirstBootProvisioning_Retry ==
    /\ pc = "L92"
    /\ run_provisioning(FALSE)
    /\ pc' = IF provOutcome' = "ok" THEN "L94" ELSE "L92"
    /\ UNCHANGED <<boots, dirExists, claimPresent, isFirst, lsCrt, lsKey, files,
                   dirAtStart, probeResult, sensorStarted, jobagent, sessions,
                   rebooting, lastCall, lastPoll, everDisconnected>>

\* line 92: run_provisioning(isRotation=False)
FirstBootProvisioning ==
    /\ pc = "L92"
    /\ run_provisioning(FALSE)
    /\ pc' = "L94"
    /\ UNCHANGED <<boots, dirExists, claimPresent, isFirst, lsCrt, lsKey, files,
                   dirAtStart, probeResult, sensorStarted, jobagent, sessions,
                   rebooting, lastCall, lastPoll, everDisconnected>>

\* lines 93-94 and 110-111: sensor_simulator(provisioner), lines 123-126
sensor_simulator(at, to) ==
    /\ pc = at
    /\ sensorStarted' = TRUE
    /\ pc' = to
    /\ UNCHANGED <<boots, dirExists, dir, claimPresent, isFirst, new_cert_name,
                   new_key_name, lsCrt, lsKey, files, dirAtStart, rpCalls, provLog,
                   provOutcome, probeResult, jobagent, sessions,
                   rebooting, lastCall, lastPoll, everDisconnected>>

\* lines 96 and 113: jobagent = DeviceJobAgent(...)
ConstructJobAgent(at, to) ==
    /\ pc = at
    /\ jobagent' = DeviceJobAgent
    /\ pc' = to
    /\ UNCHANGED <<boots, dirExists, dir, claimPresent, isFirst, new_cert_name,
                   new_key_name, lsCrt, lsKey, files, dirAtStart, rpCalls, provLog,
                   provOutcome, probeResult, sensorStarted, sessions,
                   rebooting, lastCall, lastPoll, everDisconnected>>

\* lines 103-105: isFirst = False, files = the '.crt' names of the listing
ListCrt ==
    /\ pc = "L103"
    /\ isFirst' = FALSE
    /\ \E listing \in ListDir(dir) :
          /\ lsCrt' = listing
          /\ files' = FilterExt(listing, CrtExt)
    /\ pc' = "L106"
    /\ UNCHANGED <<boots, dirExists, dir, claimPresent, new_cert_name,
                   new_key_name, lsKey, dirAtStart, rpCalls, provLog,
                   provOutcome, probeResult, sensorStarted, jobagent, sessions,
                   rebooting, lastCall, lastPoll, everDisconnected>>

\* line 106: provisioner.new_cert_name = files[0] (IndexError on an empty list)
TakeCrt ==
    /\ pc = "L106"
    /\ IF files = <<>>
       THEN pc' = "error" /\ UNCHANGED new_cert_name
       ELSE pc' = "L107" /\ new_cert_name' = files[1]
    /\ UNCHANGED <<boots, dirExists, dir, claimPresent, isFirst,
                   new_key_name, lsCrt, lsKey, files, dirAtStart, rpCalls, provLog,
                   provOutcome, probeResult, sensorStarted, jobagent, sessions,
                   rebooting, lastCall, lastPoll, everDisconnected>>

\* line 107: files = the '.key' names of a new listing
ListKey ==
    /\ pc = "L107"
    /\ \E listing \in ListDir(dir) :
          /\ lsKey' = listing
          /\ files' = FilterExt(listing, KeyExt)
    /\ pc' = "L108"
    /\ UNCHANGED <<boots, dirExists, dir, claimPresent, isFirst, new_cert_name,
                   new_key_name, lsCrt, dirAtStart, rpCalls, provLog,
                   provOutcome, probeResult, sensorStarted, jobagent, sessions,
                   rebooting, lastCall, lastPoll, everDisconnected>>

\* line 108: provisioner.new_key_name = files[0] (IndexError on an empty list)
TakeKey ==
    /\ pc = "L108"
    /\ IF files = <<>>
       THEN pc' = "error" /\ UNCHANGED new_key_name
       ELSE pc' = "L109" /\ new_key_name' = files[1]
    /\ UNCHANGED <<boots, dirExists, dir, claimPresent, isFirst, new_cert_name,
                   lsCrt, lsKey, files, dirAtStart, rpCalls, provLog,
                   provOutcome, probeResult, sensorStarted, jobagent, sessions,
                   rebooting, lastCall, lastPoll, everDisconnected>>

\* line 109: provisioner.test_restricted_topic(message="test message")
Probe ==
    /\ pc = "L109"
    /\ \E r \in {"ok", "fail"} : test_restricted_topic(r)
    /\ pc' = "L111"
    /\ UNCHANGED <<boots, dirExists, dir, claimPresent, isFirst, new_cert_name,
                   new_key_name, lsCrt, lsKey, files, dirAtStart, rpCalls, provLog,
                   provOutcome, sensorStarted, jobagent, sessions,
                   rebooting, lastCall, lastPoll, everDisconnected>>

\* ------------------------------------------------------------------------
\* The job agent restart loop, lines 97-101 and 114-118
\* ------------------------------------------------------------------------
\* lines 98 and 115: jobagent.init() connects with the identity it was given
\* and enters Polling; the connection can only succeed with stored files
JobInit(at, to) ==
    /\ pc = at
    /\ \E ok \in (IF IdentityUsable THEN BOOLEAN ELSE {FALSE}) :
          sessions' = IF ok THEN sessions + 1 ELSE sessions
    /\ rebooting' = FALSE
    /\ lastCall' = "init"
    /\ pc' = to
    /\ UNCHANGED <<boots, dirExists, dir, claimPresent, isFirst, new_cert_name,
                   new_key_name, lsCrt, lsKey, files, dirAtStart, rpCalls, provLog,
                   provOutcome, probeResult, sensorStarted, jobagent,
                   lastPoll, everDisconnected>>

\* faulty variant of JobPoll: "while jobagent.isRebooting()"
JobPoll_NoNegation(at, body, exit) ==
    /\ pc = at
    /\ lastPoll' = rebooting
    /\ lastCall' = "poll"
    /\ pc' = IF rebooting THEN body ELSE exit
    /\ UNCHANGED <<boots, dirExists, dir, claimPresent, isFirst, new_cert_name,
                   new_key_name, lsCrt, lsKey, files, dirAtStart, rpCalls, provLog,
                   provOutcome, probeResult, sensorStarted, jobagent, sessions,
                   rebooting, everDisconnected>>

\* lines 99 and 116: while not jobagent.isRebooting()
JobPoll(at, body, exit) ==
    /\ pc = at
    /\ lastPoll' = rebooting
    /\ lastCall' = "poll"
    /\ pc' = IF rebooting THEN exit ELSE body
    /\ UNCHANGED <<boots, dirExists, dir, claimPresent, isFirst, new_cert_name,
                   new_key_name, lsCrt, lsKey, files, dirAtStart, rpCalls, provLog,
                   provOutcome, probeResult, sensorStarted, jobagent, sessions,
                   rebooting, everDisconnected>>

\* lines 100 and 117: time.sleep(1)
Sleep(at, to) ==
    /\ pc = at
    /\ pc' = to
    /\ UNCHANGED <<boots, dirExists, dir, claimPresent, isFirst, new_cert_name,
                   new_key_name, lsCrt, lsKey, files, dirAtStart, rpCalls, provLog,
                   provOutcome, probeResult, sensorStarted, jobagent, sessions,
                   rebooting, lastCall, lastPoll, everDisconnected>>

\* faulty variant of JobDisconnect: the outer "while True" is left after one session
JobDisconnect_Break(at, to) ==
    /\ pc = at
    /\ sessions' = IF sessions > 0 THEN sessions - 1 ELSE 0
    /\ lastCall' = "disconnect"
    /\ everDisconnected' = TRUE
    /\ pc' = "done"
    /\ UNCHANGED <<boots, dirExists, dir, claimPresent, isFirst, new_cert_name,
                   new_key_name, lsCrt, lsKey, files, dirAtStart, rpCalls, provLog,
                   provOutcome, probeResult, sensorStarted, jobagent,
                   rebooting, lastPoll>>

\* lines 101 and 118: jobagent.disconnect() closes the session if one is open
JobDisconnect(at, to) ==
    /\ pc = at
    /\ sessions' = IF sessions > 0 THEN sessions - 1 ELSE 0
    /\ lastCall' = "disconnect"
    /\ everDisconnected' = TRUE
    /\ pc' = to
    /\ UNCHANGED <<boots, dirExists, dir, claimPresent, isFirst, new_cert_name,
                   new_key_name, lsCrt, lsKey, files, dirAtStart, rpCalls, provLog,
                   provOutcome, probeResult, sensorStarted, jobagent,
                   rebooting, lastPoll>>

\* the job agent executes a job whose document requests a reboot
JobRequestsReboot ==
    /\ sessions > 0
    /\ ~rebooting
    /\ rebooting' = TRUE
    /\ UNCHANGED <<pc, boots, dirExists, dir, claimPresent, isFirst, new_cert_name,
                   new_key_name, lsCrt, lsKey, files, dirAtStart, rpCalls, provLog,
                   provOutcome, probeResult, sensorStarted, jobagent, sessions,
                   lastCall, lastPoll, everDisconnected>>

\* lines 128-129: the process is started again; the files stay as they are
Restart ==
    /\ pc # "start"
    /\ boots < MaxBoots
    /\ boots' = boots + 1
    /\ pc' = "start"
    /\ isFirst' \in BOOLEAN
    /\ new_cert_name' = NoName
    /\ new_key_name' = NoName
    /\ lsCrt' = <<>>
    /\ lsKey' = <<>>
    /\ files' = <<>>
    /\ dirAtStart' = dir
    /\ rpCalls' = <<>>
    /\ provLog' = <<>>
    /\ provOutcome' = "none"
    /\ probeResult' = "none"
    /\ sensorStarted' = FALSE
    /\ jobagent' = NoAgent
    /\ sessions' = 0
    /\ rebooting' = FALSE
    /\ lastCall' = "none"
    /\ lastPoll' = FALSE
    /\ everDisconnected' = FALSE
    /\ UNCHANGED <<dirExists, dir, claimPresent>>

\* the steps of the main thread in one run of the process
Orchestration ==
    \/ CheckDir
    \/ FirstBootProvisioning
    \/ sensor_simulator("L94", "L96")
    \/ ConstructJobAgent("L96", "L98")
    \/ JobInit("L98", "L99")
    \/ JobPoll("L99", "L100", "L101")
    \/ Sleep("L100", "L99")
    \/ JobDisconnect("L101", "L98")
    \/ ListCrt
    \/ TakeCrt
    \/ ListKey
    \/ TakeKey
    \/ Probe
    \/ sensor_simulator("L111", "L113")
    \/ ConstructJobAgent("L113", "L115")
    \/ JobInit("L115", "L116")
    \/ JobPoll("L116", "L117", "L118")
    \/ Sleep("L117", "L116")
    \/ JobDisconnect("L118", "L115")

NextRun == Orchestration \/ JobRequestsReboot

Next == Orchestration \/ JobRequestsReboot \/ Restart

Spec == Init /\ [][Next]_vars

\* one run of the process, the main thread scheduled fairly
SpecRun == Init /\ [][NextRun]_vars /\ WF_vars(Orchestration)

TypeOK ==
    /\ pc \in {"start", "L92", "L94", "L96", "L98", "L99", "L100", "L101",
               "L103", "L106", "L107", "L108", "L109", "L111", "L113", "L115",
               "L116", "L117", "L118", "done", "error"}
    /\ boots \in 0..MaxBoots
    /\ dir \subseteq Names
    /\ sessions \in 0..1

\* ------------------------------------------------------------------------
\* Properties
\* ------------------------------------------------------------------------
StartsWith(s, prefix) ==
    /\ Len(s) >= Len(prefix)
    /\ SubSeq(s, 1, Len(prefix)) = prefix

HasExt(name, ext) == \E k \in 0..Len(name) : name = SubSeq(name, 1, k) \o ext

FirstMatch(listing, ext, name) ==
    \E i \in 1..Len(listing) :
        /\ listing[i] = name
        /\ HasExt(name, ext)
        /\ \A j \in 1..(i - 1) : ~HasExt(listing[j], ext)

IdentityPresentAtStart == dirExists /\ dirAtStart # {}

NoIdentityAtStart == dirAtStart = {}

InLoop == pc \in {"L98", "L99", "L100", "L101", "L115", "L116", "L117", "L118"}

\* the main thread leaves a line that calls a method of jobagent
CallStep ==
    /\ pc \in {"L98", "L99", "L101", "L115", "L116", "L118"}
    /\ pc' # pc
    /\ boots' = boots

\* C1: when the production directory exists and is not empty at start-up,
\* neither run_provisioning nor provisioner.get_official_certs is called in
\* that run, before or after the job agent is started, on the first start-up
\* and on every later one.
C1_NoProvisioningWhenProvisioned ==
    IdentityPresentAtStart => (rpCalls = <<>> /\ provLog = <<>>)

\* a later start-up with an identity present, the job agent started again
\* after a disconnect
C1_Witness ==
    /\ IdentityPresentAtStart
    /\ boots >= 1
    /\ everDisconnected
    /\ lastCall = "init"
    /\ sessions = 1

\* C2: if run_provisioning(isRotation=False) on the first-boot path yields no
\* production identity (the exchange fails or the claim certificate is
\* missing), no job agent is constructed and init() is never called.
C2_FailedProvisioningIsFatal ==
    provOutcome \in {"failed", "noclaim"} =>
        (~jobagent.constructed /\ lastCall = "none")

\* C3: when the production directory exists and is empty at start-up, a run
\* calls run_provisioning and get_official_certs at most once, with
\* isRotation = False, also after a failure and inside the restart loop.
C3_AtMostOneAttempt ==
    (dirExists /\ NoIdentityAtStart) =>
        /\ Len(rpCalls) <= 1
        /\ Len(provLog) <= 1
        /\ \A i \in 1..Len(rpCalls) : rpCalls[i] = FALSE
        /\ \A i \in 1..Len(provLog) : provLog[i] = FALSE

\* the single attempt has failed and the restart loop is polling
C3_Witness ==
    /\ dirExists
    /\ NoIdentityAtStart
    /\ provOutcome = "failed"
    /\ provLog = <<FALSE>>
    /\ lastCall = "poll"

\* C4: when the probe on the restricted topic fails, a job agent is only
\* started after run_provisioning(isRotation=False) has been performed.
C4_ProbeFailureFallsBack ==
    (probeResult = "fail" /\ jobagent.constructed) => rpCalls = <<FALSE>>

\* C5: in every run that started without a production identity (directory
\* empty or missing), check_real_cert performs run_provisioning(False)
\* before it does anything else or ends.
C5_AbsenceLeadsToProvisioning ==
    (NoIdentityAtStart /\ pc \notin {"start", "L92"}) => rpCalls = <<FALSE>>

\* C6: the certificate and key given to the job agent are the files
\* new_cert_name and new_key_name of the production directory, never a file
\* of the bootstrap location; only the root CA comes from there.
C6_AgentUsesProductionIdentity ==
    jobagent.constructed =>
        /\ StartsWith(jobagent.cert, actua_cert_path \o <<"/">>)
        /\ StartsWith(jobagent.key, actua_cert_path \o <<"/">>)
        /\ ~StartsWith(jobagent.cert, secure_cert_path \o <<"/">>)
        /\ ~StartsWith(jobagent.key, secure_cert_path \o <<"/">>)
        /\ jobagent.cert = actua_cert_path \o <<"/">> \o new_cert_name
        /\ jobagent.key = actua_cert_path \o <<"/">> \o new_key_name
        /\ jobagent.ca = secure_cert_path \o <<"/">> \o root_cert

\* a job agent session opened after a successful first-boot exchange
C6_Witness ==
    /\ jobagent.constructed
    /\ provOutcome = "ok"
    /\ sessions = 1

\* C7: a step that performs run_provisioning(isRotation=False) calls
\* get_official_certs only if the claim certificate can be opened; when it
\* cannot, no call is made and the production directory is unchanged.
C7_ClaimCertPrecondition ==
    [][rpCalls' = Append(rpCalls, FALSE) =>
          /\ (provLog' # provLog => claimPresent)
          /\ (~claimPresent => (provLog' = provLog /\ dir' = dir))]_vars

\* run_provisioning(False) has returned without the claim certificate
C7_Witness ==
    /\ ~claimPresent
    /\ rpCalls = <<FALSE>>
    /\ provOutcome = "noclaim"
    /\ provLog = <<>>
    /\ dir = dirAtStart

\* C8: init() is only called when no session is open and the previous call
\* was none or disconnect(); disconnect() is only called right after an
\* isRebooting() that returned true; isRebooting() follows init() or
\* isRebooting(); at most one session is open.
C8_CallsAlternate ==
    /\ [](sessions <= 1)
    /\ [][CallStep =>
            /\ (lastCall' = "init" =>
                    (lastCall \in {"none", "disconnect"} /\ sessions = 0))
            /\ (lastCall' = "disconnect" => (lastCall = "poll" /\ lastPoll))
            /\ (lastCall' = "poll" => lastCall \in {"init", "poll"})]_vars

\* the job agent has been initialised again after a disconnect
C8_Witness ==
    /\ everDisconnected
    /\ lastCall = "init"
    /\ sessions = 1
    /\ boots = 0

\* C9: the restart loop is never left; a sleep is followed by another poll;
\* a pending reboot leads to disconnect(), and disconnect() leads to init().
C9_LoopRunsForever ==
    /\ [][InLoop => InLoop']_vars
    /\ (pc \in {"L100", "L117"}) ~> (pc \in {"L99", "L116"})
    /\ (InLoop /\ rebooting) ~> (lastCall = "disconnect")
    /\ (InLoop /\ lastCall = "disconnect") ~> (lastCall = "init")

\* after a reboot request and a new init() the loop is polling again
C9_Witness ==
    /\ everDisconnected
    /\ pc \in {"L100", "L117"}
    /\ lastCall = "poll"
    /\ ~lastPoll

\* C10: on the already-provisioned path the probe and the job agent are only
\* reached with new_cert_name the first '.crt' name and new_key_name the
\* first '.key' name of a listing of the directory; without a '.crt' or
\* without a '.key' file the run gets no further than the error.
C10_DiscoveryByExtension ==
    /\ pc \in {"L109", "L111", "L113", "L115", "L116", "L117", "L118"} =>
          /\ new_cert_name \in dir
          /\ new_key_name \in dir
          /\ {lsCrt[i] : i \in 1..Len(lsCrt)} = dir
          /\ {lsKey[i] : i \in 1..Len(lsKey)} = dir
          /\ FirstMatch(lsCrt, CrtExt, new_cert_name)
          /\ FirstMatch(lsKey, KeyExt, new_key_name)
    /\ (/\ IdentityPresentAtStart
        /\ \/ ~\E f \in dirAtStart : HasExt(f, CrtExt)
           \/ ~\E f \in dirAtStart : HasExt(f, KeyExt)) =>
          /\ pc \in {"start", "L103", "L106", "L107", "L108", "error"}
          /\ probeResult = "none"
          /\ ~jobagent.constructed
          /\ lastCall = "none"

\* two '.crt' files are stored and the job agent runs with the older one
C10_Witness ==
    /\ pc = "L116"
    /\ sessions = 1
    /\ {NewCert, OldCert} \subseteq dir
    /\ new_cert_name = OldCert

====
